---------------------------- MODULE Spec2Model ----------------------------
(***************************************************************************)
(* A model of the sitemap-writer crate (src/src/*.rs).                     *)
(*                                                                         *)
(* Texts are TLA+ strings, handled character by character with Len, \o and *)
(* SubSeq, so that a document is the very byte sequence the code emits and *)
(* a property of the output is a property of that byte sequence.           *)
(*                                                                         *)
(* A behaviour of Spec is of one of two kinds.                             *)
(*                                                                         *)
(* One call of a pure build function: the initial state draws the writer   *)
(* and its argument from a bounded set, and the one step is the call of    *)
(* SitemapWriter::build or of SitemapIndexWriter::build on it.             *)
(*                                                                         *)
(* Calls of the make functions: one thread calls make again and again on   *)
(* one path.  A step is one call that make makes to the file layer         *)
(* (File::create, Write::write, Write::flush), which may fail, and a write *)
(* of which may accept fewer bytes than it was given.                      *)
(***************************************************************************)
EXTENDS Integers, Sequences, FiniteSets, TLC

VARIABLES
    bkind,      \* the writer whose build is called: "urlset" or "index"
    bargs,      \* the Vec<SitemapUrl> / Vec<SitemapIndex> it is given
    bdone,      \* whether build has returned
    rows,       \* the values of the local `row`, one per loop iteration
    content,    \* the String it returns
    fs,         \* the file system: path -> None, or Some(bytes of the file)
    thr         \* per thread, its call of make: see IdleThread

buildVars == <<bkind, bargs, bdone, rows, content>>
makeVars == <<fs, thr>>
vars == <<bkind, bargs, bdone, rows, content, fs, thr>>

---------------------------------------------------------------------------
(* Bounds of the model.                                                    *)

\* longest entry sequence built from the core entries
MaxEntries == 2
\* a location text is the concatenation of at most MaxPieces pieces
MaxPieces == 2

---------------------------------------------------------------------------
(* Texts.                                                                  *)

CharAt(s, i) == SubSeq(s, i, i)
Drop(s, n) == SubSeq(s, n + 1, Len(s))
Take(s, n) == SubSeq(s, 1, n)
StartsWith(s, p) == Len(p) <= Len(s) /\ Take(s, Len(p)) = p
EndsWith(s, p) == Len(p) <= Len(s) /\ Drop(s, Len(s) - Len(p)) = p
OccursAt(s, p, i) == i >= 1 /\ i + Len(p) - 1 <= Len(s) /\ SubSeq(s, i, i + Len(p) - 1) = p
Contains(s, p) == \E i \in 1..(Len(s) - Len(p) + 1) : OccursAt(s, p, i)
\* the number of (possibly overlapping) occurrences of p in s
CountOcc(s, p) == Cardinality({i \in 1..(Len(s) - Len(p) + 1) : OccursAt(s, p, i)})
\* the position of the first occurrence of p in s at or after position i, 0 if none
IndexFrom(s, p, i) ==
    LET hits == {k \in i..(Len(s) - Len(p) + 1) : OccursAt(s, p, k)}
    IN  IF hits = {} THEN 0
        ELSE CHOOSE k \in hits : \A j \in hits : k <= j

RECURSIVE ConcatAll(_)
ConcatAll(ss) == IF ss = <<>> THEN "" ELSE Head(ss) \o ConcatAll(Tail(ss))

\* Option<T>
None == [some |-> FALSE]
Some(v) == [some |-> TRUE, val |-> v]

---------------------------------------------------------------------------
(* html_escape::encode_text, the escaping routine both writers call on a   *)
(* location (sitemap_writer.rs:79,142; sitemap_index.rs:156,211).  The     *)
(* crate documents it as escaping exactly `&`, `<` and `>`; every other    *)
(* character, the quote characters included, is copied unchanged.          *)

EncodeChar_Quotes(c) ==
    CASE c = "&" -> "&amp;"
      [] c = "<" -> "&lt;"
      [] c = ">" -> "&gt;"
      [] c = "\"" -> "&quot;"
      [] c = "'" -> "&#x27;"
      [] OTHER -> c

EncodeChar(c) ==
    CASE c = "&" -> "&amp;"
      [] c = "<" -> "&lt;"
      [] c = ">" -> "&gt;"
      [] OTHER -> c

\* an escaping routine that converts the quote characters too
RECURSIVE encode_quoted(_)
encode_quoted(s) ==
    IF s = "" THEN "" ELSE EncodeChar_Quotes(CharAt(s, 1)) \o encode_quoted(Drop(s, 1))

RECURSIVE encode_text(_)
encode_text(s) ==
    IF s = "" THEN "" ELSE EncodeChar(CharAt(s, 1)) \o encode_text(Drop(s, 1))

---------------------------------------------------------------------------
(* SitemapChangeFreq and its Display (sitemap_url.rs:102-138).             *)

SitemapChangeFreq == {"ALWAYS", "HOURLY", "DAILY", "WEEKLY", "MONTHLY", "YEARLY", "NEVER"}

ChangeFreq_to_string(f) ==
    CASE f = "ALWAYS" -> "always"
      [] f = "HOURLY" -> "hourly"
      [] f = "DAILY" -> "daily"
      [] f = "WEEKLY" -> "weekly"
      [] f = "MONTHLY" -> "monthly"
      [] f = "YEARLY" -> "yearly"
      [] f = "NEVER" -> "never"

(* Display of an f32 priority (`{}` in format!).  A priority is modelled   *)
(* by its number of tenths, an integer: 10 is 1.0 and prints "1", 8 is 0.8 *)
(* and prints "0.8", -5 is -0.5 and prints "-0.5".                         *)
F32_to_string(p) ==
    LET a == IF p < 0 THEN -p ELSE p
        whole == ToString(a \div 10)
        frac == a % 10
    IN  (IF p < 0 THEN "-" ELSE "")
        \o whole
        \o (IF frac = 0 THEN "" ELSE "." \o ToString(frac))

---------------------------------------------------------------------------
(* The literals the writers emit.                                          *)

XmlDecl == "<?xml version=\"1.0\" encoding=\"UTF-8\"?>"
UrlsetOpen == "<urlset xmlns=\"http://www.sitemaps.org/schemas/sitemap/0.9\">"
UrlsetClose_NoSpace == "</urlset>"
UrlsetClose == "</urlset> "
IndexOpen == "<sitemapindex xmlns=\"http://www.sitemaps.org/schemas/sitemap/0.9\">"
IndexClose == "</sitemapindex>"

---------------------------------------------------------------------------
(* The loop bodies of the two build functions.                             *)

\* SitemapWriter::build, the value of `row` pushed for one url
SitemapWriter_build_row_RawLoc(url) ==
    "<url>"
    \o ("<loc>" \o url.loc \o "</loc>")
    \o (IF url.lastmod.some
        THEN "<lastmod>" \o url.lastmod.val \o "</lastmod>"
        ELSE "")
    \o (IF url.changefreq.some
        THEN "<changefreq>" \o ChangeFreq_to_string(url.changefreq.val) \o "</changefreq>"
        ELSE "")
    \o (IF url.priority.some
        THEN "<priority>" \o F32_to_string(url.priority.val) \o "</priority>"
        ELSE "")
    \o "</url>"

SitemapWriter_build_row(url) ==
    "<url>"
    \o ("<loc>" \o encode_text(url.loc) \o "</loc>")
    \o (IF url.lastmod.some
        THEN "<lastmod>" \o url.lastmod.val \o "</lastmod>"
        ELSE "")
    \o (IF url.changefreq.some
        THEN "<changefreq>" \o ChangeFreq_to_string(url.changefreq.val) \o "</changefreq>"
        ELSE "")
    \o (IF url.priority.some
        THEN "<priority>" \o F32_to_string(url.priority.val) \o "</priority>"
        ELSE "")
    \o "</url>"

\* SitemapIndexWriter::build, the value of `row` pushed for one sitemap
SitemapIndexWriter_build_row_Twice(sitemap) ==
    "<sitemap>"
    \o ("<loc>" \o encode_text(encode_text(sitemap.loc)) \o "</loc>")
    \o (IF sitemap.lastmod.some
        THEN "<lastmod>" \o sitemap.lastmod.val \o "</lastmod>"
        ELSE "")
    \o "</sitemap>"

SitemapIndexWriter_build_row(sitemap) ==
    "<sitemap>"
    \o ("<loc>" \o encode_text(sitemap.loc) \o "</loc>")
    \o (IF sitemap.lastmod.some
        THEN "<lastmod>" \o sitemap.lastmod.val \o "</lastmod>"
        ELSE "")
    \o "</sitemap>"

---------------------------------------------------------------------------
(* The inputs of build.                                                    *)

RECURSIVE SeqsUpTo(_, _)
SeqsUpTo(S, n) ==
    IF n = 0 THEN {<<>>}
    ELSE LET T == SeqsUpTo(S, n - 1)
         IN  T \cup {Append(t, x) : t \in T, x \in S}

\* location texts: every concatenation of at most MaxPieces pieces; "&" and
\* "amp;" make the text "&amp;", a location that already looks escaped
LocPieces == {"a", "&", "<", ">", "\"", "'", "amp;", "lt;"}
RECURSIVE TextsUpTo(_)
TextsUpTo(n) ==
    IF n = 0 THEN {""}
    ELSE LET T == TextsUpTo(n - 1)
         IN  T \cup {t \o c : t \in T, c \in LocPieces}
LocTexts == TextsUpTo(MaxPieces)

CoreLocs == {"https://example.com/", "https://example.com/?a=1&b=<2>"}
\* lastmod is a caller-supplied String: a date, or any other text
UrlLastmods ==
    { "2024-01-01",
      "</lastmod></url><url><loc>b</loc><lastmod>",
      "</lastmod><priority>1</priority><lastmod>" }
IndexLastmods ==
    { "2024-01-01",
      "</lastmod></sitemap><sitemap><loc>b</loc><lastmod>" }
Priorities == {0, 5, 8, 10}

SitemapUrl_new(loc) ==
    [loc |-> loc, lastmod |-> None, changefreq |-> None, priority |-> None]
SitemapIndex_new(loc) == [loc |-> loc, lastmod |-> None]

Opt(S) == {None} \cup {Some(v) : v \in S}

\* entries that sequences of up to MaxEntries are made of
CoreUrls ==
    [loc : CoreLocs, lastmod : Opt(UrlLastmods),
     changefreq : {None}, priority : Opt({8})]
\* entries given alone: every location text, and every value of the enum
\* and of the priority
RichUrls == {SitemapUrl_new(t) : t \in LocTexts}
FieldUrls ==
    [loc : {"https://example.com/"}, lastmod : Opt({"2024-01-01"}),
     changefreq : Opt(SitemapChangeFreq), priority : Opt(Priorities)]
UrlInputs ==
    SeqsUpTo(CoreUrls, MaxEntries) \cup {<<u>> : u \in RichUrls \cup FieldUrls}

CoreIndexes == [loc : CoreLocs \cup {"a"}, lastmod : Opt(IndexLastmods)]
RichIndexes == {SitemapIndex_new(t) : t \in LocTexts}
IndexInputs == SeqsUpTo(CoreIndexes, MaxEntries) \cup {<<s>> : s \in RichIndexes}

---------------------------------------------------------------------------
(* The build functions.                                                    *)

\* the rows SitemapWriter::build pushes, in order
SitemapWriter_build_rows(urls) ==
    [i \in 1..Len(urls) |-> SitemapWriter_build_row(urls[i])]

\* SitemapWriter::build(urls), the String it returns
SitemapWriter_build_content(urls) ==
    XmlDecl \o UrlsetOpen \o ConcatAll(SitemapWriter_build_rows(urls)) \o UrlsetClose

\* the rows SitemapIndexWriter::build pushes, in order
SitemapIndexWriter_build_rows(sitemaps) ==
    [i \in 1..Len(sitemaps) |-> SitemapIndexWriter_build_row(sitemaps[i])]

\* SitemapIndexWriter::build(sitemaps), the String it returns
SitemapIndexWriter_build_content_NoDecl(sitemaps) ==
    IndexOpen \o ConcatAll(SitemapIndexWriter_build_rows(sitemaps)) \o IndexClose

SitemapIndexWriter_build_content(sitemaps) ==
    XmlDecl \o IndexOpen \o ConcatAll(SitemapIndexWriter_build_rows(sitemaps))
    \o IndexClose

\* the state before the call: the writer and the argument of the call
BuildInit ==
    /\ \/ bkind = "urlset" /\ bargs \in UrlInputs
       \/ bkind = "index" /\ bargs \in IndexInputs
    /\ bdone = FALSE
    /\ rows = <<>>
    /\ content = ""

\* no call of build
BuildIdle ==
    /\ bkind = "none"
    /\ bargs = <<>>
    /\ bdone = FALSE
    /\ rows = <<>>
    /\ content = ""

\* SitemapWriter::build(urls)
SitemapWriter_build ==
    /\ bkind = "urlset" /\ ~bdone
    /\ rows' = SitemapWriter_build_rows(bargs)
    /\ content' = SitemapWriter_build_content(bargs)
    /\ bdone' = TRUE
    /\ UNCHANGED <<bkind, bargs>>
    /\ UNCHANGED makeVars

\* SitemapIndexWriter::build(sitemaps)
SitemapIndexWriter_build ==
    /\ bkind = "index" /\ ~bdone
    /\ rows' = SitemapIndexWriter_build_rows(bargs)
    /\ content' = SitemapIndexWriter_build_content(bargs)
    /\ bdone' = TRUE
    /\ UNCHANGED <<bkind, bargs>>
    /\ UNCHANGED makeVars

---------------------------------------------------------------------------
(* The loop bodies of the two make functions: the value of `row` handed to *)
(* write_text for one entry.                                               *)

\* SitemapWriter::make
SitemapWriter_make_row(url) ==
    "<url>"
    \o ("<loc>" \o encode_text(url.loc) \o "</loc>")
    \o (IF url.lastmod.some
        THEN "<lastmod>" \o url.lastmod.val \o "</lastmod>"
        ELSE "")
    \o (IF url.changefreq.some
        THEN "<changefreq>" \o ChangeFreq_to_string(url.changefreq.val) \o "</changefreq>"
        ELSE "")
    \o (IF url.priority.some
        THEN "<priority>" \o F32_to_string(url.priority.val) \o "</priority>"
        ELSE "")
    \o "</url>"

\* SitemapIndexWriter::make
SitemapIndexWriter_make_row(sitemap) ==
    "<sitemap>"
    \o ("<loc>" \o encode_text(sitemap.loc) \o "</loc>")
    \o (IF sitemap.lastmod.some
        THEN "<lastmod>" \o sitemap.lastmod.val \o "</lastmod>"
        ELSE "")
    \o "</sitemap>"

---------------------------------------------------------------------------
(* The file layer (std::fs::File, std::io::Write).                         *)

Threads == {"t1", "t2"}
Paths == {"test.xml", "test_index.xml"}

\* stands for the zero byte that fills the gap when a write lands beyond the
\* end of a file
ZeroByte == "\t"

RECURSIVE Zeros(_)
Zeros(n) == IF n <= 0 THEN "" ELSE ZeroByte \o Zeros(n - 1)

\* the bytes of a file after `bytes` is written at offset pos
Overwrite(old, pos, bytes) ==
    LET padded == old \o Zeros(pos - Len(old))
    IN  Take(padded, pos) \o bytes \o Drop(padded, pos + Len(bytes))

\* File::create(path) that succeeds: the file exists and is empty
\* (create, write, truncate)
FileCreate(files, path) == [files EXCEPT ![path] = Some("")]

\* what one call of Write::write(buf) may return: Err, or Ok(n) with n the
\* number of bytes accepted, all of buf or all but its last byte
IoErr == [ok |-> FALSE, n |-> 0]
IoOk(n) == [ok |-> TRUE, n |-> n]
WriteOutcomes(buf) ==
    {IoErr, IoOk(Len(buf))} \cup (IF Len(buf) > 0 THEN {IoOk(Len(buf) - 1)} ELSE {})
\* what File::create and Write::flush may return
UnitOutcomes == {IoErr, IoOk(0)}

\* write_text of sitemap_writer.rs: the Result it makes of what write
\* returned; the byte count of an Ok is not looked at
write_text_Swallow(buf, f) == "Ok"
write_text(buf, f) == IF f.ok THEN "Ok" ELSE "Write"
\* write_text of sitemap_index.rs
index_write_text(buf, f) == IF f.ok THEN "Ok" ELSE "Write"

---------------------------------------------------------------------------
(* The make functions, one step per call to the file layer.                *)

\* a thread that is not in make.  In make: pc is the next file-layer call
\* ("create", "decl", "open", "rows", "close", "flush") or "done" once make
\* has returned `result`; i counts the rows written; pos is the offset of
\* the file handle; log lists the file-layer calls made, with what they
\* were given and what they returned.
IdleThread ==
    [pc |-> "idle", kind |-> "none", path |-> "", args |-> <<>>,
     i |-> 0, pos |-> 0, log |-> <<>>, result |-> "none"]

\* the entries given to make: a bare location and an entry with every field
MakeUrls ==
    { SitemapUrl_new("https://example.com/contact/?test=<>"),
      [loc |-> "https://example.com/?q=\"a\"&r='b'", lastmod |-> Some("2021-01-01"),
       changefreq |-> Some("ALWAYS"), priority |-> Some(10)] }
MakeIndexes ==
    { SitemapIndex_new("https://example.com/sitemap1.xml?q=\"a\"&r=<b>"),
      [loc |-> "https://example.com/sitemap2.xml", lastmod |-> Some("2024-01-15")] }
MakeUrlInputs == SeqsUpTo(MakeUrls, MaxEntries)
MakeIndexInputs == SeqsUpTo(MakeIndexes, MaxEntries)

\* the one thread of a behaviour and the path it calls make on
MainThread == "t1"
MainPath == "test.xml"

\* the files before the first call: none, or a file of some other content
\* at the path
NoFiles == [p \in Paths |-> None]
InitialFiles == {NoFiles, [NoFiles EXCEPT ![MainPath] = Some("old")]}

MakeInit ==
    /\ fs \in InitialFiles
    /\ thr = [t \in Threads |-> IdleThread]

MakeIdle ==
    /\ fs = NoFiles
    /\ thr = [t \in Threads |-> IdleThread]

\* thread t calls SitemapWriter::make(path, urls)
SitemapWriter_make_call(t, path, urls) ==
    /\ thr[t].pc = "idle"
    /\ thr' = [thr EXCEPT ![t] =
                [IdleThread EXCEPT !.pc = "create", !.kind = "urlset",
                                   !.path = path, !.args = urls]]
    /\ UNCHANGED fs
    /\ UNCHANGED buildVars

\* thread t calls SitemapIndexWriter::make(path, sitemaps)
SitemapIndexWriter_make_call(t, path, sitemaps) ==
    /\ thr[t].pc = "idle"
    /\ thr' = [thr EXCEPT ![t] =
                [IdleThread EXCEPT !.pc = "create", !.kind = "index",
                                   !.path = path, !.args = sitemaps]]
    /\ UNCHANGED fs
    /\ UNCHANGED buildVars

\* File::create(path) and the is_err test after it
CreateStep(t) ==
    \E f \in UnitOutcomes :
        /\ fs' = IF f.ok THEN FileCreate(fs, thr[t].path) ELSE fs
        /\ thr' = [thr EXCEPT ![t] =
                    [@ EXCEPT !.log = Append(@, [op |-> "create", buf |-> "", ret |-> f]),
                              !.pos = 0,
                              !.pc = IF f.ok THEN "decl" ELSE "done",
                              !.result = IF f.ok THEN @ ELSE "FileOpen"]]

\* write_text(&file, buf)?: the write at the handle's offset, then the
\* return from make if write_text gave an Err, else on to `next`
WriteStep(t, buf, next) ==
    \E f \in WriteOutcomes(buf) :
        LET r == IF thr[t].kind = "urlset" THEN write_text(buf, f)
                 ELSE index_write_text(buf, f)
        IN  /\ fs' = IF f.ok
                     THEN [fs EXCEPT ![thr[t].path] =
                            Some(Overwrite(@.val, thr[t].pos, Take(buf, f.n)))]
                     ELSE fs
            /\ thr' = [thr EXCEPT ![t] =
                        [@ EXCEPT !.log = Append(@, [op |-> "write", buf |-> buf, ret |-> f]),
                                  !.pos = @ + f.n,
                                  !.i = IF thr[t].pc = "rows" /\ r = "Ok" THEN @ + 1 ELSE @,
                                  !.pc = IF r = "Ok" THEN next ELSE "done",
                                  !.result = IF r = "Ok" THEN @ ELSE r]]

\* file.flush() and the match on it: make returns
FlushStep(t) ==
    \E f \in UnitOutcomes :
        /\ thr' = [thr EXCEPT ![t] =
                    [@ EXCEPT !.log = Append(@, [op |-> "flush", buf |-> "", ret |-> f]),
                              !.pc = "done",
                              !.result = IF f.ok THEN "Ok" ELSE "Write"]]
        /\ UNCHANGED fs

\* where the loop `for url in urls` goes after the rows written so far
AfterRow(t, written) == IF written < Len(thr[t].args) THEN "rows" ELSE "close"

SitemapWriter_make_create(t) ==
    /\ thr[t].kind = "urlset" /\ thr[t].pc = "create"
    /\ CreateStep(t)
    /\ UNCHANGED buildVars
SitemapWriter_make_decl(t) ==
    /\ thr[t].kind = "urlset" /\ thr[t].pc = "decl"
    /\ WriteStep(t, XmlDecl, "open")
    /\ UNCHANGED buildVars
SitemapWriter_make_open(t) ==
    /\ thr[t].kind = "urlset" /\ thr[t].pc = "open"
    /\ WriteStep(t, UrlsetOpen, AfterRow(t, 0))
    /\ UNCHANGED buildVars
SitemapWriter_make_rows_Reversed(t) ==
    /\ thr[t].kind = "urlset" /\ thr[t].pc = "rows"
    /\ WriteStep(t, SitemapWriter_make_row(thr[t].args[Len(thr[t].args) - thr[t].i]),
                 AfterRow(t, thr[t].i + 1))
    /\ UNCHANGED buildVars
SitemapWriter_make_rows(t) ==
    /\ thr[t].kind = "urlset" /\ thr[t].pc = "rows"
    /\ WriteStep(t, SitemapWriter_make_row(thr[t].args[thr[t].i + 1]),
                 AfterRow(t, thr[t].i + 1))
    /\ UNCHANGED buildVars
SitemapWriter_make_close(t) ==
    /\ thr[t].kind = "urlset" /\ thr[t].pc = "close"
    /\ WriteStep(t, UrlsetClose, "flush")
    /\ UNCHANGED buildVars
SitemapWriter_make_flush(t) ==
    /\ thr[t].kind = "urlset" /\ thr[t].pc = "flush"
    /\ FlushStep(t)
    /\ UNCHANGED buildVars

SitemapIndexWriter_make_create(t) ==
    /\ thr[t].kind = "index" /\ thr[t].pc = "create"
    /\ CreateStep(t)
    /\ UNCHANGED buildVars
SitemapIndexWriter_make_decl(t) ==
    /\ thr[t].kind = "index" /\ thr[t].pc = "decl"
    /\ WriteStep(t, XmlDecl, "open")
    /\ UNCHANGED buildVars
SitemapIndexWriter_make_open(t) ==
    /\ thr[t].kind = "index" /\ thr[t].pc = "open"
    /\ WriteStep(t, IndexOpen, AfterRow(t, 0))
    /\ UNCHANGED buildVars
SitemapIndexWriter_make_rows(t) ==
    /\ thr[t].kind = "index" /\ thr[t].pc = "rows"
    /\ WriteStep(t, SitemapIndexWriter_make_row(thr[t].args[thr[t].i + 1]),
                 AfterRow(t, thr[t].i + 1))
    /\ UNCHANGED buildVars
SitemapIndexWriter_make_close(t) ==
    /\ thr[t].kind = "index" /\ thr[t].pc = "close"
    /\ WriteStep(t, IndexClose, "flush")
    /\ UNCHANGED buildVars
SitemapIndexWriter_make_flush(t) ==
    /\ thr[t].kind = "index" /\ thr[t].pc = "flush"
    /\ FlushStep(t)
    /\ UNCHANGED buildVars

\* the caller takes the Result; the thread may call make again
Return(t) ==
    /\ thr[t].pc = "done"
    /\ thr' = [thr EXCEPT ![t] = IdleThread]
    /\ UNCHANGED fs
    /\ UNCHANGED buildVars

---------------------------------------------------------------------------
(* The specification: a behaviour is one call of build, or calls of make   *)
(* by one thread on one path, one after the other.                         *)

Init ==
    \/ BuildInit /\ MakeIdle
    \/ BuildIdle /\ MakeInit

Next ==
    \/ SitemapWriter_build
    \/ SitemapIndexWriter_build
    \/ \E urls \in MakeUrlInputs :
        bkind = "none" /\ SitemapWriter_make_call(MainThread, MainPath, urls)
    \/ \E sitemaps \in MakeIndexInputs :
        bkind = "none" /\ SitemapIndexWriter_make_call(MainThread, MainPath, sitemaps)
    \/ SitemapWriter_make_create(MainThread)
    \/ SitemapWriter_make_decl(MainThread)
    \/ SitemapWriter_make_open(MainThread)
    \/ SitemapWriter_make_rows(MainThread)
    \/ SitemapWriter_make_close(MainThread)
    \/ SitemapWriter_make_flush(MainThread)
    \/ SitemapIndexWriter_make_create(MainThread)
    \/ SitemapIndexWriter_make_decl(MainThread)
    \/ SitemapIndexWriter_make_open(MainThread)
    \/ SitemapIndexWriter_make_rows(MainThread)
    \/ SitemapIndexWriter_make_close(MainThread)
    \/ SitemapIndexWriter_make_flush(MainThread)
    \/ Return(MainThread)

Spec == Init /\ [][Next]_vars

---------------------------------------------------------------------------
(* Concurrent calls: every thread is in one call of make, each on a path   *)
(* of its own, and the file-layer calls of the threads interleave in any   *)
(* order (the tests of lib.rs run so, one test per thread).                *)

\* a concurrent call is given at most MaxConcEntries entries
MaxConcEntries == 1

\* the path of each thread's call
PathOf == [t \in Threads |-> IF t = "t1" THEN "test.xml" ELSE "test_index.xml"]

\* the calls a thread may be in: either writer, on the thread's path
ConcCalls(t) ==
    {[IdleThread EXCEPT !.pc = "create", !.kind = "urlset",
                        !.path = PathOf[t], !.args = urls] :
        urls \in SeqsUpTo(MakeUrls, MaxConcEntries)}
    \cup
    {[IdleThread EXCEPT !.pc = "create", !.kind = "index",
                        !.path = PathOf[t], !.args = sitemaps] :
        sitemaps \in SeqsUpTo(MakeIndexes, MaxConcEntries)}

ConcInit ==
    /\ BuildIdle
    /\ fs \in [Paths -> {None, Some("old")}]
    /\ thr \in {c \in [Threads -> UNION {ConcCalls(t) : t \in Threads}] :
                    \A t \in Threads : c[t] \in ConcCalls(t)}

ConcNext ==
    \/ \E t \in Threads : SitemapWriter_make_create(t)
    \/ \E t \in Threads : SitemapWriter_make_decl(t)
    \/ \E t \in Threads : SitemapWriter_make_open(t)
    \/ \E t \in Threads : SitemapWriter_make_rows(t)
    \/ \E t \in Threads : SitemapWriter_make_close(t)
    \/ \E t \in Threads : SitemapWriter_make_flush(t)
    \/ \E t \in Threads : SitemapIndexWriter_make_create(t)
    \/ \E t \in Threads : SitemapIndexWriter_make_decl(t)
    \/ \E t \in Threads : SitemapIndexWriter_make_open(t)
    \/ \E t \in Threads : SitemapIndexWriter_make_rows(t)
    \/ \E t \in Threads : SitemapIndexWriter_make_close(t)
    \/ \E t \in Threads : SitemapIndexWriter_make_flush(t)

SpecConc == ConcInit /\ [][ConcNext]_vars

---------------------------------------------------------------------------
(* Reading the document back.                                              *)

RootOpen == IF bkind = "urlset" THEN UrlsetOpen ELSE IndexOpen
ChildName == IF bkind = "urlset" THEN "url" ELSE "sitemap"

RECURSIVE SumLen(_, _)
SumLen(ss, n) == IF n = 0 THEN 0 ELSE Len(ss[n]) + SumLen(ss, n - 1)

\* the bytes of `content` that loop iteration i appended
EmittedChild(i) ==
    LET off == Len(XmlDecl) + Len(RootOpen) + SumLen(rows, i - 1)
    IN  SubSeq(content, off + 1, off + Len(rows[i]))

\* the text between the first <loc> of s and the </loc> that follows it
LocContent(s) ==
    LET a == IndexFrom(s, "<loc>", 1)
        b == IndexFrom(s, "</loc>", a)
    IN  SubSeq(s, a + 5, b - 1)

\* the emitted location of entry i
EmittedLoc(i) == LocContent(EmittedChild(i))

\* what an XML reader makes of character content: each entity reference
\* decoded once
RECURSIVE DecodeEntities(_)
DecodeEntities(s) ==
    IF s = "" THEN ""
    ELSE IF StartsWith(s, "&amp;") THEN "&" \o DecodeEntities(Drop(s, 5))
    ELSE IF StartsWith(s, "&lt;") THEN "<" \o DecodeEntities(Drop(s, 4))
    ELSE IF StartsWith(s, "&gt;") THEN ">" \o DecodeEntities(Drop(s, 4))
    ELSE IF StartsWith(s, "&quot;") THEN "\"" \o DecodeEntities(Drop(s, 6))
    ELSE IF StartsWith(s, "&apos;") THEN "'" \o DecodeEntities(Drop(s, 6))
    ELSE IF StartsWith(s, "&#x27;") THEN "'" \o DecodeEntities(Drop(s, 6))
    ELSE CharAt(s, 1) \o DecodeEntities(Drop(s, 1))

\* every "&" of s starts one of the three entity references
AmpersandsStartEntities(s) ==
    \A k \in 1..Len(s) :
        CharAt(s, k) = "&" =>
            OccursAt(s, "&amp;", k) \/ OccursAt(s, "&lt;", k) \/ OccursAt(s, "&gt;", k)

\* the name of a tag, given the text between its "<" and ">"
TagName(t) ==
    LET sp == IndexFrom(t, " ", 1)
    IN  IF sp = 0 THEN t ELSE Take(t, sp - 1)

\* the names of the tags of s from position i on, in order ("/x" closes x);
\* "<" alone stands for a "<" that no ">" follows
RECURSIVE TagsFrom(_, _)
TagsFrom(s, i) ==
    LET a == IndexFrom(s, "<", i)
    IN  IF a = 0 THEN <<>>
        ELSE LET b == IndexFrom(s, ">", a)
             IN  IF b = 0 THEN <<"<">>
                 ELSE <<TagName(SubSeq(s, a + 1, b - 1))>> \o TagsFrom(s, b + 1)
Tags(s) == TagsFrom(s, 1)

\* the elements <name>...</name> of s from position i on, in order
RECURSIVE ElementsFrom(_, _, _)
ElementsFrom(s, name, i) ==
    LET open == "<" \o name \o ">"
        close == "</" \o name \o ">"
        a == IndexFrom(s, open, i)
    IN  IF a = 0 THEN <<>>
        ELSE LET b == IndexFrom(s, close, a)
             IN  IF b = 0 THEN <<>>
                 ELSE <<SubSeq(s, a, b + Len(close) - 1)>>
                      \o ElementsFrom(s, name, b + Len(close))
Elements(s, name) == ElementsFrom(s, name, 1)

---------------------------------------------------------------------------
(* Claims about build.                                                     *)

\* C1: in the output of both build functions, each `&`, `<`, `>` of a
\* location is replaced by `&amp;`, `&lt;`, `&gt;`, and between the <loc> and
\* the </loc> of a location there is no raw `<` or `>` and no `&` that does
\* not start one of these entity references.
C1_LocEscaped ==
    bdone =>
        \A i \in 1..Len(bargs) :
            LET t == bargs[i].loc
                c == EmittedLoc(i)
            IN  /\ CountOcc(c, "&amp;") = CountOcc(t, "&")
                /\ CountOcc(c, "&lt;") = CountOcc(t, "<")
                /\ CountOcc(c, "&gt;") = CountOcc(t, ">")
                /\ ~Contains(c, "<")
                /\ ~Contains(c, ">")
                /\ AmpersandsStartEntities(c)

C1_Witness ==
    /\ bdone
    /\ Len(bargs) = 2
    /\ \E i \in 1..Len(bargs) :
        /\ Contains(bargs[i].loc, "&")
        /\ Contains(bargs[i].loc, "<")
        /\ Contains(bargs[i].loc, ">")
        /\ Contains(EmittedLoc(i), "&amp;b=&lt;2&gt;")

\* the tags a reader must find in the document: the declaration, the root,
\* and per entry the child element with one sub-element per present field
UrlTags(url) ==
    <<"url", "loc", "/loc">>
    \o (IF url.lastmod.some THEN <<"lastmod", "/lastmod">> ELSE <<>>)
    \o (IF url.changefreq.some THEN <<"changefreq", "/changefreq">> ELSE <<>>)
    \o (IF url.priority.some THEN <<"priority", "/priority">> ELSE <<>>)
    \o <<"/url">>
SitemapTags(sitemap) ==
    <<"sitemap", "loc", "/loc">>
    \o (IF sitemap.lastmod.some THEN <<"lastmod", "/lastmod">> ELSE <<>>)
    \o <<"/sitemap">>
EntryTags(e) == IF bkind = "urlset" THEN UrlTags(e) ELSE SitemapTags(e)
RECURSIVE FlatTags(_)
FlatTags(es) == IF es = <<>> THEN <<>> ELSE EntryTags(Head(es)) \o FlatTags(Tail(es))
ExpectedTags ==
    IF bkind = "urlset"
    THEN <<"?xml", "urlset">> \o FlatTags(bargs) \o <<"/urlset">>
    ELSE <<"?xml", "sitemapindex">> \o FlatTags(bargs) \o <<"/sitemapindex">>

IsOpenTag(t) == ~StartsWith(t, "/")
OpenTags(s) == SelectSeq(Tags(s), IsOpenTag)

\* C2: whatever text the caller puts in a location or a lastmod, the text
\* content of every emitted element is escaped and the document is
\* well-formed: one root element, one child element per entry, and no tag
\* other than those the writer emits for the entries' fields.
C2_WellFormed ==
    bdone =>
        /\ Tags(content) = ExpectedTags
        /\ AmpersandsStartEntities(content)

\* the location of the k-th row that thread t handed to write_text, and the
\* text emitted for it (the rows are the writes after the declaration and
\* the root open tag)
RowsWritten(t) ==
    {k \in 1..Len(thr[t].args) : k + 3 <= Len(thr[t].log)}
WrittenLoc(t, k) == LocContent(thr[t].log[k + 3].buf)

OnlyMarkupConverted(t, c) ==
    /\ CountOcc(c, "\"") = CountOcc(t, "\"")
    /\ CountOcc(c, "'") = CountOcc(t, "'")
    /\ Len(c) = Len(t) + 4 * CountOcc(t, "&") + 3 * CountOcc(t, "<") + 3 * CountOcc(t, ">")
    /\ CountOcc(c, "<") + CountOcc(c, ">") = 0
    /\ CountOcc(c, "&") = CountOcc(t, "&") + CountOcc(t, "<") + CountOcc(t, ">")

C3_WitnessMake ==
    \E t \in Threads : \E k \in RowsWritten(t) :
        /\ thr[t].result = "Ok"
        /\ Contains(thr[t].args[k].loc, "\"")
        /\ Contains(thr[t].args[k].loc, "'")
        /\ Contains(fs[thr[t].path].val, "<loc>" \o WrittenLoc(t, k) \o "</loc>")

\* what each writer's build emits between <loc> and </loc> for each location
\* text given alone
UrlLocOf == [u \in LocTexts |-> LocContent(SitemapWriter_build_row(SitemapUrl_new(u)))]
IndexLocOf ==
    [u \in LocTexts |-> LocContent(SitemapIndexWriter_build_row(SitemapIndex_new(u)))]

\* C4: escaping is applied once and can be undone: decoding the entity
\* references of an emitted location once gives back the location text, also
\* for a text that already contains `&amp;`, and no other location text is
\* emitted as the same content.
C4_RoundTrip ==
    bdone =>
        \A i \in 1..Len(bargs) :
            LET t == bargs[i].loc
                c == EmittedLoc(i)
            IN  /\ DecodeEntities(c) = t
                /\ \A u \in LocTexts :
                    (IF bkind = "urlset" THEN UrlLocOf[u] ELSE IndexLocOf[u]) = c
                        => u = t

C4_Witness ==
    /\ bdone
    /\ bkind = "index"
    /\ Len(bargs) = 1
    /\ bargs[1].loc = "&amp;"
    /\ EmittedLoc(1) = "&amp;amp;"

\* C5: for N entries the output holds exactly N child elements, and the i-th
\* of them is the rendering of the i-th entry.
C5_ChildPerEntry ==
    bdone =>
        LET ch == Elements(content, ChildName)
        IN  /\ Len(ch) = Len(bargs)
            /\ \A i \in 1..Len(ch) : ch[i] = rows[i]

\* C6: the child element of an entry holds <loc> first, then one sub-element
\* for each optional field that is present and none for an absent one, in
\* the order lastmod, changefreq, priority (lastmod for an index entry);
\* with every optional field absent it holds only <loc>.
C6_SubElements ==
    bdone =>
        \A i \in 1..Len(bargs) :
            LET e == bargs[i]
                opt(name) == IF e[name].some THEN <<name>> ELSE <<>>
            IN  OpenTags(EmittedChild(i)) =
                    IF bkind = "urlset"
                    THEN <<"url", "loc">> \o opt("lastmod") \o opt("changefreq")
                                          \o opt("priority")
                    ELSE <<"sitemap", "loc">> \o opt("lastmod")

\* C9: for no entries build yields the declaration, the root open tag with
\* the sitemaps.org namespace and the root close tag with nothing in between;
\* one space follows </urlset>, nothing follows </sitemapindex>.
C9_EmptyDocument ==
    bdone /\ bargs = <<>> =>
        /\ bkind = "urlset" =>
            content = "<?xml version=\"1.0\" encoding=\"UTF-8\"?>"
                      \o "<urlset xmlns=\"http://www.sitemaps.org/schemas/sitemap/0.9\">"
                      \o "</urlset>" \o " "
        /\ bkind = "index" =>
            content = "<?xml version=\"1.0\" encoding=\"UTF-8\"?>"
                      \o "<sitemapindex xmlns=\"http://www.sitemaps.org/schemas/sitemap/0.9\">"
                      \o "</sitemapindex>"

C9_Witness ==
    /\ bdone
    /\ bargs = <<>>
    /\ bkind = "urlset"
    /\ EndsWith(content, "> ")

\* the <loc> elements of the two entries are in the document, in input order
TwoLocsInOrder ==
    LET locs == Elements(content, "loc")
    IN  \E i, j \in 1..Len(locs) :
            /\ i < j
            /\ DecodeEntities(LocContent(locs[i])) = bargs[1].loc
            /\ DecodeEntities(LocContent(locs[j])) = bargs[2].loc

\* C10 as stated: the index document of two entries starts with
\* `<sitemapindex`, ends with `</sitemapindex>` and holds the two <loc>
\* elements in input order.
C10_StartsWithRoot ==
    bdone /\ bkind = "index" /\ Len(bargs) = 2 =>
        /\ StartsWith(content, "<sitemapindex")
        /\ EndsWith(content, "</sitemapindex>")
        /\ TwoLocsInOrder

\* C10 as amended: the index document of two entries starts with the XML
\* declaration, which `<sitemapindex` follows at once, ends with
\* `</sitemapindex>` and holds the two <loc> elements in input order.
C10_DeclThenRoot ==
    bdone /\ bkind = "index" /\ Len(bargs) = 2 =>
        /\ StartsWith(content, "<?xml version=\"1.0\" encoding=\"UTF-8\"?><sitemapindex")
        /\ EndsWith(content, "</sitemapindex>")
        /\ TwoLocsInOrder

C10_Witness ==
    /\ bdone
    /\ bkind = "index"
    /\ Len(bargs) = 2
    /\ bargs[1].loc # bargs[2].loc
    /\ bargs[1].lastmod = Some("2024-01-01")
    /\ bargs[2].lastmod = None

---------------------------------------------------------------------------
(* Claims about make.                                                      *)

\* the file-layer calls of a log that returned an error
Failed(l) == {k \in 1..Len(l) : ~l[k].ret.ok}
OpsOf(l) == [k \in 1..Len(l) |-> l[k].op]
\* the file-layer calls of a make of n entries that nothing stops
FullRun(n) == <<"create">> \o [k \in 1..(n + 3) |-> "write"] \o <<"flush">>
IsPrefix(a, b) == Len(a) <= Len(b) /\ SubSeq(b, 1, Len(a)) = a

\* C7: make returns FileOpen, having written nothing, when File::create
\* fails, and Write when a write or the flush fails; the first failed call
\* to the file layer is the last call make makes to it (no further write, no
\* retry, no flush); make returns Ok only when the create, every write and
\* the flush succeeded.  For both writers.
C7_ErrorHandling ==
    \A t \in Threads :
        LET th == thr[t]
            l == th.log
        IN  th.pc # "idle" =>
            /\ IsPrefix(OpsOf(l), FullRun(Len(th.args)))
            /\ Failed(l) # {} =>
                /\ Failed(l) = {Len(l)}
                /\ th.pc = "done"
                /\ th.result = IF l[Len(l)].op = "create" THEN "FileOpen" ELSE "Write"
            /\ th.result = "FileOpen" => OpsOf(l) = <<"create">>
            /\ th.result = "Write" => Failed(l) # {}
            /\ th.result = "Ok" =>
                /\ th.pc = "done"
                /\ Failed(l) = {}
                /\ OpsOf(l) = FullRun(Len(th.args))
            /\ th.pc = "done" <=> th.result # "none"

C7_Witness ==
    \E t \in Threads :
        /\ thr[t].kind = "index"
        /\ thr[t].pc = "done"
        /\ thr[t].result = "Write"
        /\ Len(thr[t].args) = 2
        /\ Len(thr[t].log) = 5
        /\ thr[t].log[5].op = "write"

\* the bytes make handed to the file layer, and those the file layer accepted
RECURSIVE Handed(_)
Handed(l) ==
    IF l = <<>> THEN ""
    ELSE Handed(SubSeq(l, 1, Len(l) - 1)) \o l[Len(l)].buf
RECURSIVE Accepted(_)
Accepted(l) ==
    IF l = <<>> THEN ""
    ELSE Accepted(SubSeq(l, 1, Len(l) - 1)) \o Take(l[Len(l)].buf, l[Len(l)].ret.n)

\* C8: after successful calls of make on a path, the file holds the document
\* of the last call and nothing else: no byte of an earlier call or of what
\* was there before, also when the last document is the shorter one.
C8_OnlyLastDocument ==
    \A t \in Threads :
        thr[t].pc = "done" /\ thr[t].result = "Ok" =>
            fs[thr[t].path] = Some(Handed(thr[t].log))

\* what holds of the file instead: it holds the bytes the file layer
\* accepted from the last call, and nothing else
FileIsWhatWasAccepted ==
    \A t \in Threads :
        thr[t].pc \notin {"idle", "create"} /\ thr[t].log[1].ret.ok =>
            fs[thr[t].path] = Some(Accepted(thr[t].log))

\* the document build returns for the entries of thread t's call
BuiltDocument(t) ==
    IF thr[t].kind = "urlset" THEN SitemapWriter_build_content(thr[t].args)
    ELSE SitemapIndexWriter_build_content(thr[t].args)

\* every write of a log accepted all the bytes it was given
AllWritesComplete(l) == \A k \in 1..Len(l) : l[k].ret.ok => l[k].ret.n = Len(l[k].buf)

\* C12: whenever make(path, entries) returns Ok, the file at path holds
\* build(entries) of the same writer, whatever the file layer did, a write
\* that accepted fewer bytes than it was given included.
C12_FileEqualsBuild ==
    \A t \in Threads :
        thr[t].pc = "done" /\ thr[t].result = "Ok" =>
            fs[thr[t].path] = Some(BuiltDocument(t))

\* what holds instead: the file holds build(entries) when every write
\* accepted all its bytes
FileEqualsBuildWhenComplete ==
    \A t \in Threads :
        thr[t].pc = "done" /\ thr[t].result = "Ok" /\ AllWritesComplete(thr[t].log) =>
            fs[thr[t].path] = Some(BuiltDocument(t))


\* the row make writes for entry e of thread t's call
MakeRow(t, e) ==
    IF thr[t].kind = "urlset" THEN SitemapWriter_make_row(e)
    ELSE SitemapIndexWriter_make_row(e)

\* the file-layer calls of thread t's make that nothing stops, each with the
\* bytes it is given
ExpectedCalls(t) ==
    LET args == thr[t].args
        call(op, buf) == [op |-> op, buf |-> buf]
    IN  <<call("create", ""), call("write", XmlDecl),
          call("write", IF thr[t].kind = "urlset" THEN UrlsetOpen ELSE IndexOpen)>>
        \o [k \in 1..Len(args) |-> call("write", MakeRow(t, args[k]))]
        \o <<call("write", IF thr[t].kind = "urlset" THEN UrlsetClose ELSE IndexClose),
             call("flush", "")>>

CallsOf(l) == [k \in 1..Len(l) |-> [op |-> l[k].op, buf |-> l[k].buf]]

\* C13: the file steps of make are, in this order: create, the write of the
\* declaration, the write of the root open tag, one write per entry in input
\* order, the write of the root close tag, the flush; Ok is reported only
\* after the flush has succeeded and no write follows the flush.
C13_StepOrder ==
    \A t \in Threads :
        LET l == thr[t].log
        IN  thr[t].pc # "idle" =>
            /\ IsPrefix(CallsOf(l), ExpectedCalls(t))
            /\ thr[t].result = "Ok" =>
                /\ CallsOf(l) = ExpectedCalls(t)
                /\ l[Len(l)].op = "flush" /\ l[Len(l)].ret.ok
            /\ \A j, k \in 1..Len(l) : l[j].op = "flush" /\ l[k].op = "write" => k < j
            /\ (\E k \in 1..Len(l) : l[k].op = "flush") => thr[t].pc = "done"

C13_Witness ==
    \E t \in Threads :
        /\ thr[t].kind = "urlset"
        /\ thr[t].pc = "done"
        /\ thr[t].result = "Ok"
        /\ Len(thr[t].args) = 2
        /\ thr[t].args[1] # thr[t].args[2]
        /\ Len(thr[t].log) = 7
        /\ thr[t].log[4].buf = SitemapWriter_make_row(thr[t].args[1])
        /\ thr[t].log[5].buf = SitemapWriter_make_row(thr[t].args[2])


---------------------------------------------------------------------------
(* Claims about concurrent calls of make.                                  *)

\* what a call of make returns when it runs alone and the file layer
\* answers as in log l
ResultAlone(l) ==
    IF ~l[1].ret.ok THEN "FileOpen"
    ELSE IF Failed(l) # {} THEN "Write"
    ELSE "Ok"

\* a step is the step of one call: it leaves the locals of every other call
\* and the file of every other path as they are
StepOfOneCall ==
    \E t \in Threads :
        /\ \A u \in Threads \ {t} : thr'[u] = thr[u]
        /\ \A p \in Paths \ {thr[t].path} : fs'[p] = fs[p]

\* every call that has returned has the result of its run alone, and the
\* file of a call that returned Ok holds the document of that call
OwnResultAndDocument ==
    \A t \in Threads :
        thr[t].pc = "done" =>
            /\ thr[t].result = ResultAlone(thr[t].log)
            /\ thr[t].result = "Ok" => fs[thr[t].path] = Some(BuiltDocument(t))

\* C11: when calls of make run concurrently on pairwise different paths,
\* under every interleaving of their file steps each call returns the result
\* of its run alone, each file ends as the document of its own call, and no
\* call reads or changes state of another call.
C11_CallsIndependent == []OwnResultAndDocument /\ [][StepOfOneCall]_vars

\* what holds instead: the result and the steps are those of the call alone,
\* and the file of a call holds what the file layer accepted from that call,
\* which is its document when every write was complete
OwnResultAndAcceptedBytes ==
    \A t \in Threads :
        /\ thr[t].pc = "done" => thr[t].result = ResultAlone(thr[t].log)
        /\ thr[t].pc # "create" /\ thr[t].log[1].ret.ok =>
            fs[thr[t].path] = Some(Accepted(thr[t].log))
        /\ thr[t].pc = "done" /\ thr[t].result = "Ok" /\ AllWritesComplete(thr[t].log) =>
            fs[thr[t].path] = Some(BuiltDocument(t))
ConcurrentCallsDoNotInterfere == []OwnResultAndAcceptedBytes /\ [][StepOfOneCall]_vars


=============================================================================
